---------------------------- MODULE Spec2Model ----------------------------
(***************************************************************************)
(* The progress-accounting engine of the productivity dashboard            *)
(* (dashboard/views.py, dashboard/signals.py, dashboard/forms.py,          *)
(* dashboard/models.py): personal goals, their time logs, and the          *)
(* requests that create, edit and delete them.                             *)
(*                                                                         *)
(* Storage.  The two tables are the variables goals and logs, partial      *)
(* functions from primary keys to rows.  Every SQL statement is atomic.    *)
(* A transaction.atomic block is all-or-nothing.  Isolation is READ        *)
(* COMMITTED with row locks (Django's default on PostgreSQL): a            *)
(* transaction's writes are invisible to others until it commits, and an   *)
(* UPDATE of a goal row holds that row until commit, so the statements of  *)
(* one atomic block from its first write to its commit act as one step     *)
(* at the commit; the reads a view makes before its first write are        *)
(* separate, earlier steps.  SQLite, which serialises writers, produces a  *)
(* subset of these behaviours.                                             *)
(*                                                                         *)
(* Time.  Durations (DurationField, timedelta) are counted in ticks of a   *)
(* tenth of a minute, so that the fractional minutes a FloatField accepts  *)
(* are exact.  TimeLog.minutes is an integer number of minutes.            *)
(*                                                                         *)
(* time_log_edit_view and time_log_delete_view, which dashboard/urls.py    *)
(* routes to, are present in dashboard/views.py only as commented-out      *)
(* definitions; they are modelled from that text.  The names Goal and      *)
(* TimeLog that the views, the forms and the signal import stand for the   *)
(* models PersonalGoal and PersonalTimeLog of dashboard/models.py.         *)
(***************************************************************************)
EXTENDS Integers, FiniteSets, Sequences, TLC

VARIABLES goals, logs, nextGoalId, nextLogId, req,
          today, team_goals, team_logs, teams, memberships

vars == <<goals, logs, nextGoalId, nextLogId, req, today, team_goals, team_logs,
          teams, memberships>>

\* The clock and the tables of the teams app, which the views of the
\* dashboard app's journal leave alone.
elsewhere == <<today, team_goals, team_logs, teams, memberships>>

(***************************************************************************)
(* Bounds of the model.                                                    *)
(***************************************************************************)
MaxGoals == 2
MaxLogs == 2
MaxTotalMinutes == 3
\* The dashboard: entries in the journal it reads, the last day an entry is
\* dated, the last day the clock reaches.
MaxLoggedEntries == 3
LastLogDay == 4
MaxDay == 6
\* The teams created.
MaxTeams == 2

Users == {"u1", "u2"}
Requests == {"r1", "r2"}
Dates == {1, 2}

TicksPerMinute == 10

(***************************************************************************)
(* Form inputs.  A numeric field is absent or carries a value, in ticks    *)
(* for the FloatField minutes and in minutes for the target.               *)
(***************************************************************************)
Absent == [given |-> FALSE, value |-> 0]
Given(v) == [given |-> TRUE, value |-> v]

MinutesInputs == {Absent} \cup {Given(t) : t \in {-10, 0, 5, 10, 15, 20, 25}}
TargetInputs == {Absent} \cup {Given(m) : m \in {0, 2, 3}}

(***************************************************************************)
(* Python's numeric conversions, on a value given in ticks.                *)
(***************************************************************************)
\* round(x): to the nearest integer, a tie to the even neighbour.
PyRound(t) ==
    LET q == t \div TicksPerMinute
        r == t % TicksPerMinute
    IN  IF 2 * r < TicksPerMinute THEN q
        ELSE IF 2 * r > TicksPerMinute THEN q + 1
        ELSE IF q % 2 = 0 THEN q ELSE q + 1

\* int(x): truncation towards zero.
PyInt(t) == IF t >= 0 THEN t \div TicksPerMinute ELSE -((-t) \div TicksPerMinute)

\* timedelta(minutes=m)
timedelta(m) == m * TicksPerMinute

(***************************************************************************)
(* Rows.                                                                   *)
(***************************************************************************)
\* BaseGoal/PersonalGoal defaults: real_time = timedelta(0), completed = False.
NewGoal(u, target) ==
    [user |-> u, target_time |-> target, real_time |-> 0, completed |-> FALSE]

NewLog(g, u, m, d) == [goal |-> g, user |-> u, minutes |-> m, log_date |-> d]

Without(f, k) == [x \in DOMAIN f \ {k} |-> f[x]]

\* The sum of the minutes of the time logs that reference goal g.
RECURSIVE SumMinutes(_, _, _)
SumMinutes(ls, ids, g) ==
    IF ids = {} THEN 0
    ELSE LET l == CHOOSE x \in ids : TRUE
         IN  (IF ls[l].goal = g THEN ls[l].minutes ELSE 0)
             + SumMinutes(ls, ids \ {l}, g)

LoggedMinutes(g) == SumMinutes(logs, DOMAIN logs, g)

(***************************************************************************)
(* A database state inside a transaction, and the outcome of a block.      *)
(***************************************************************************)
DB(gs, ls) == [goals |-> gs, logs |-> ls]
\* A block ends normally, or an exception leaves it, or an exception is
\* caught inside it (the block then ends normally with what was written).
Ok(db) == [ok |-> TRUE, rollback |-> FALSE, db |-> db]
Raise(db) == [ok |-> FALSE, rollback |-> TRUE, db |-> db]
Caught(db) == [ok |-> FALSE, rollback |-> FALSE, db |-> db]

\* Goal.objects.filter(pk=g).update(real_time=F('real_time') + delta):
\* one UPDATE against the stored value; no row, no effect.
UpdateRealTime(db, g, delta) ==
    IF g \in DOMAIN db.goals
    THEN [db EXCEPT !.goals[g].real_time = @ + delta]
    ELSE db

\* goal.save(update_fields=['completed'])
SaveCompleted(db, g, c) == [db EXCEPT !.goals[g].completed = c]


\* The statements of a block each committed on their own.
Autocommit(before, out) == out.db

\* with transaction.atomic(): the block's writes are kept when it ends
\* normally and discarded when an exception leaves it.
Atomic(before, out) == IF out.rollback THEN before ELSE out.db

\* A receiver that acts on every save, created or not.
update_goal_and_streak_always(db, g, minutes, created, fail) ==
    IF fail = "increment" THEN Raise(db)
    ELSE LET d1 == UpdateRealTime(db, g, timedelta(minutes))
         IN  IF fail = "reread" \/ g \notin DOMAIN d1.goals
             THEN Raise(d1)
             ELSE LET goal == d1.goals[g]
                  IN  IF goal.target_time # 0
                         /\ goal.real_time >= goal.target_time
                         /\ ~goal.completed
                      THEN IF fail = "flag" THEN Raise(d1)
                           ELSE Ok(SaveCompleted(d1, g, TRUE))
                      ELSE Ok(d1)

\* A receiver that adds the minutes and leaves the flag alone.
update_goal_and_streak_no_flag(db, g, minutes, created, fail) ==
    IF ~created THEN Ok(db)
    ELSE IF fail # "none" THEN Raise(db)
    ELSE IF g \notin DOMAIN db.goals THEN Raise(db)
    ELSE Ok(UpdateRealTime(db, g, timedelta(minutes)))

(***************************************************************************)
(* dashboard/signals.py: the post_save receiver of TimeLog.  It runs       *)
(* inside the save() that sends the signal, so inside the caller's atomic  *)
(* block.  fail names the statement at which the storage layer raises.     *)
(***************************************************************************)
update_goal_and_streak(db, g, minutes, created, fail) ==
    IF ~created THEN Ok(db)
    ELSE IF fail = "increment" THEN Raise(db)
    ELSE LET d1 == UpdateRealTime(db, g, timedelta(minutes))
         IN  IF fail = "reread" \/ g \notin DOMAIN d1.goals
             THEN Raise(d1)   \* Goal.DoesNotExist from .get()
             ELSE LET goal == d1.goals[g]
                  IN  IF goal.target_time # 0
                         /\ goal.real_time >= goal.target_time
                         /\ ~goal.completed
                      THEN IF fail = "flag" THEN Raise(d1)
                           ELSE Ok(SaveCompleted(d1, g, TRUE))
                      ELSE Ok(d1)

(***************************************************************************)
(* The frame of a request: the view's local variables.  form is the        *)
(* posted numeric field, goal_obj the Goal instance the view holds in      *)
(* memory, old the view's minutes_old / minutes_to_subtract, team and      *)
(* team_name the team of a teams view and the name posted for a new one.   *)
(***************************************************************************)
\* The template context of a view that has not built one.
NoContext == [today |-> 0, goals_with_progress |-> <<>>, completed_goals_count |-> 0]
NoPosted == [real_time |-> 0, completed |-> FALSE]
NoGoal == [user |-> "-", target_time |-> 0, real_time |-> 0, completed |-> FALSE]

Idle ==
    [pc |-> "idle", view |-> "-", user |-> "-", goal |-> 0, log |-> 0,
     form |-> Absent, posted |-> NoPosted, date |-> 0, old |-> 0,
     goal_obj |-> NoGoal, context |-> NoContext, resp |-> "-",
     team |-> 0, team_name |-> "-"]

Begin(view, u, g, l, form, d) ==
    [Idle EXCEPT !.view = view, !.user = u, !.goal = g, !.log = l,
                 !.form = form, !.date = d]

Responded(f, r) == [f EXCEPT !.pc = "done", !.resp = r]

\* A request turned away before the view keeps anything of it.
Rejected(view, r) == [Idle EXCEPT !.pc = "done", !.view = view, !.resp = r]

GoalIds == 1..MaxGoals
LogIds == 1..MaxLogs

\* The view returns; its locals are gone.
Return(p) ==
    /\ req[p].pc = "done"
    /\ req' = [req EXCEPT ![p] = Idle]
    /\ UNCHANGED <<goals, logs, nextGoalId, nextLogId>>
    /\ UNCHANGED elsewhere

(***************************************************************************)
(* dashboard/forms.py                                                      *)
(***************************************************************************)
\* A minutes field that is only required.
TimeLogFormRequiredOnly(minutes_in) == minutes_in.given

\* TimeLogForm: minutes = FloatField(min_value=1.0), required; clean_minutes
\* rejects minutes <= 0.
TimeLogFormValid(minutes_in) ==
    /\ minutes_in.given
    /\ minutes_in.value >= 1 * TicksPerMinute
    /\ ~(minutes_in.value <= 0)

\* GoalForm.clean: the target is hours and minutes, a blank one counts 0.
GoalFormTarget(target_in) == IF target_in.given THEN timedelta(target_in.value) ELSE 0

\* A clean() that checks the dates alone.
GoalFormValidDatesOnly(target_in, end_before_start) == ~end_before_start

GoalFormValid(target_in, end_before_start) ==
    /\ ~end_before_start
    /\ GoalFormTarget(target_in) # 0

\* A form that takes real_time and completed from the request.
GoalFormSavePosted(instance, target_in, posted) ==
    [instance EXCEPT !.completed = posted.completed,
                     !.real_time = posted.real_time,
                     !.target_time = GoalFormTarget(target_in)]

\* GoalForm.save: the instance with the form's fields applied.  real_time and
\* completed are not fields of the form: posted values for them are ignored,
\* real_time stays the instance's and completed is forced to False.
GoalFormSave(instance, target_in, posted) ==
    [instance EXCEPT !.completed = FALSE,
                     !.target_time = GoalFormTarget(target_in)]

(***************************************************************************)
(* dashboard/views.py: goal_create_view                                    *)
(***************************************************************************)
PostedExtras == [real_time : {0, timedelta(3)}, completed : BOOLEAN]

goal_create_view(p, u, target_in, end_before_start, posted) ==
    /\ req[p].pc = "idle"
    /\ nextGoalId <= MaxGoals
    /\ LET f == [Begin("goal_create", u, nextGoalId, 0, target_in, 0)
                    EXCEPT !.posted = posted]
       IN  IF GoalFormValid(target_in, end_before_start)
           THEN /\ goals' = goals @@
                      (nextGoalId :> [GoalFormSave(NewGoal(u, 0), target_in, posted)
                                         EXCEPT !.user = u])
                /\ nextGoalId' = nextGoalId + 1
                /\ req' = [req EXCEPT ![p] = Responded(f, "created")]
           ELSE /\ req' = [req EXCEPT ![p] = Rejected("goal_create", "invalid")]
                /\ UNCHANGED <<goals, nextGoalId>>
    /\ UNCHANGED <<logs, nextLogId>>
    /\ UNCHANGED elsewhere

(***************************************************************************)
(* dashboard/views.py: time_log_view                                       *)
(***************************************************************************)
LogInFlight == {q \in Requests : req[q].pc = "log_txn"}

\* The view with the goal looked up by its key alone.
time_log_view_any_user(p, u, g, minutes_in, d) ==
    /\ req[p].pc = "idle"
    /\ nextLogId + Cardinality(LogInFlight) <= MaxLogs
    /\ LET f == Begin("time_log", u, g, 0, minutes_in, d)
       IN  IF g \notin DOMAIN goals
           THEN req' = [req EXCEPT ![p] =
                           [Rejected("time_log", "404") EXCEPT !.form = minutes_in]]
           ELSE IF ~TimeLogFormValid(minutes_in)
           THEN req' = [req EXCEPT ![p] =
                           [Rejected("time_log", "invalid") EXCEPT !.form = minutes_in]]
           ELSE req' = [req EXCEPT ![p] =
                           [f EXCEPT !.pc = "log_txn", !.goal_obj = goals[g]]]
    /\ UNCHANGED <<goals, logs, nextGoalId, nextLogId>>
    /\ UNCHANGED elsewhere

\* get_object_or_404(Goal, pk=goal_id, user=request.user), then the form.
time_log_view(p, u, g, minutes_in, d) ==
    /\ req[p].pc = "idle"
    /\ nextLogId + Cardinality(LogInFlight) <= MaxLogs
    /\ LET f == Begin("time_log", u, g, 0, minutes_in, d)
       IN  IF g \notin DOMAIN goals \/ goals[g].user # u
           THEN req' = [req EXCEPT ![p] =
                           [Rejected("time_log", "404") EXCEPT !.form = minutes_in]]
           ELSE IF ~TimeLogFormValid(minutes_in)
           THEN req' = [req EXCEPT ![p] =
                           [Rejected("time_log", "invalid") EXCEPT !.form = minutes_in]]
           ELSE req' = [req EXCEPT ![p] =
                           [f EXCEPT !.pc = "log_txn", !.goal_obj = goals[g]]]
    /\ UNCHANGED <<goals, logs, nextGoalId, nextLogId>>
    /\ UNCHANGED elsewhere

\* The block with the total written back from the Goal instance the view
\* loaded: goal.real_time += ...; goal.save().
time_log_block_from_instance(db, id, f, fail) ==
    LET m == PyRound(f.form.value)
    IN  IF fail # "none" \/ f.goal \notin DOMAIN db.goals
        THEN Raise(db)
        ELSE LET total == f.goal_obj.real_time + timedelta(m)
             IN  Ok([db EXCEPT
                       !.logs = @ @@ (id :> NewLog(f.goal, f.user, m, f.date)),
                       !.goals[f.goal].real_time = total,
                       !.goals[f.goal].completed =
                           @ \/ (db.goals[f.goal].target_time # 0
                                   /\ total >= db.goals[f.goal].target_time)])

\* The block with the completion test made on the Goal instance the view
\* loaded, plus the minutes of its own entry.
time_log_block_stale_test(db, id, f, fail) ==
    LET m == PyRound(f.form.value)
    IN  IF fail # "none" \/ f.goal \notin DOMAIN db.goals
        THEN Raise(db)
        ELSE LET d1 == UpdateRealTime(
                          [db EXCEPT !.logs = @ @@ (id :> NewLog(f.goal, f.user, m, f.date))],
                          f.goal, timedelta(m))
             IN  IF f.goal_obj.target_time # 0
                    /\ f.goal_obj.real_time + timedelta(m) >= f.goal_obj.target_time
                    /\ ~f.goal_obj.completed
                 THEN Ok(SaveCompleted(d1, f.goal, TRUE))
                 ELSE Ok(d1)

\* The block without a foreign key to the goal and without the signal's
\* re-read of it.
time_log_block_unchecked(db, id, f, fail) ==
    LET m == PyRound(f.form.value)
    IN  IF fail # "none" THEN Raise(db)
        ELSE Ok(UpdateRealTime(
                 [db EXCEPT !.logs = @ @@ (id :> NewLog(f.goal, f.user, m, f.date))],
                 f.goal, timedelta(m)))

\* The body of the atomic block: the TimeLog is saved with minutes
\* int(round(minutes_logged)); save() sends post_save with created=True.
time_log_block(db, id, f, fail) ==
    LET m == PyRound(f.form.value)
    IN  IF fail = "save" \/ f.goal \notin DOMAIN db.goals
        THEN Raise(db)
        ELSE update_goal_and_streak(
                 [db EXCEPT !.logs = @ @@ (id :> NewLog(f.goal, f.user, m, f.date))],
                 f.goal, m, TRUE, fail)

LogFailPoints == {"none", "save", "increment", "reread", "flag"}

time_log_txn(p) ==
    /\ req[p].pc = "log_txn"
    /\ \E fail \in LogFailPoints :
         LET before == DB(goals, logs)
             out == time_log_block(before, nextLogId, req[p], fail)
             after == Atomic(before, out)
         IN  /\ goals' = after.goals
             /\ logs' = after.logs
             /\ IF out.ok
                THEN /\ nextLogId' = nextLogId + 1
                     /\ req' = [req EXCEPT ![p].pc = "log_refresh", ![p].log = nextLogId]
                ELSE /\ nextLogId' = nextLogId
                     /\ req' = [req EXCEPT ![p] = Responded(@, "500")]
    /\ UNCHANGED nextGoalId
    /\ UNCHANGED elsewhere

\* goal.refresh_from_db(fields=[...]) and the view's own completion test.
time_log_refresh(p) ==
    /\ req[p].pc = "log_refresh"
    /\ LET g == req[p].goal
       IN  IF g \notin DOMAIN goals
           THEN req' = [req EXCEPT ![p] = Responded(@, "500")]
           ELSE LET goal == [req[p].goal_obj EXCEPT
                                !.real_time = goals[g].real_time,
                                !.completed = goals[g].completed,
                                !.target_time = goals[g].target_time]
                IN  IF goal.target_time # 0
                       /\ goal.real_time >= goal.target_time
                       /\ ~goal.completed
                    THEN req' = [req EXCEPT ![p].pc = "log_complete",
                                            ![p].goal_obj = goal]
                    ELSE req' = [req EXCEPT ![p] =
                                    Responded([@ EXCEPT !.goal_obj = goal], "logged")]
    /\ UNCHANGED <<goals, logs, nextGoalId, nextLogId>>
    /\ UNCHANGED elsewhere

\* goal.completed = True; goal.save(update_fields=['completed'])
time_log_complete(p) ==
    /\ req[p].pc = "log_complete"
    /\ LET g == req[p].goal
       IN  IF g \in DOMAIN goals
           THEN /\ goals' = SaveCompleted(DB(goals, logs), g, TRUE).goals
                /\ req' = [req EXCEPT ![p] =
                              Responded([@ EXCEPT !.goal_obj.completed = TRUE],
                                        "congratulations")]
           ELSE /\ req' = [req EXCEPT ![p] = Responded(@, "500")]
                /\ UNCHANGED goals
    /\ UNCHANGED <<logs, nextGoalId, nextLogId>>
    /\ UNCHANGED elsewhere


(***************************************************************************)
(* dashboard/views.py: time_log_edit_view (commented-out definition)       *)
(***************************************************************************)
\* get_object_or_404(TimeLog, pk=log_id, user=request.user); the form is
\* bound to the instance.  form.is_valid() runs ModelForm._post_clean, which
\* writes the cleaned fields into the instance (construct_instance) and
\* cleans it (IntegerField.to_python: int(value)), so the minutes_old the
\* view reads next from log_instance.minutes is int() of the posted value.
\* The guard on MaxTotalMinutes bounds the model.
time_log_edit_view(p, u, l, minutes_in, d) ==
    /\ req[p].pc = "idle"
    /\ LET f == Begin("time_log_edit", u, 0, l, minutes_in, d)
       IN  IF l \notin DOMAIN logs \/ logs[l].user # u
           THEN req' = [req EXCEPT ![p] = Rejected("time_log_edit", "404")]
           ELSE IF ~TimeLogFormValid(minutes_in)
           THEN req' = [req EXCEPT ![p] = Rejected("time_log_edit", "invalid")]
           ELSE LET g == logs[l].goal
                    minutes_old == PyInt(minutes_in.value)
                IN  /\ g \in DOMAIN goals
                    /\ goals[g].real_time + minutes_in.value - timedelta(minutes_old)
                          <= timedelta(MaxTotalMinutes)
                    /\ req' = [req EXCEPT ![p] =
                                 [f EXCEPT !.pc = "edit_txn", !.goal = g,
                                           !.old = minutes_old,
                                           !.goal_obj = goals[g]]]
    /\ UNCHANGED <<goals, logs, nextGoalId, nextLogId>>
    /\ UNCHANGED elsewhere

\* The atomic block: the F() update by minutes_new - minutes_old, form.save()
\* (TimeLogForm.save: minutes = int(round(...)); Model.save updates the row,
\* or inserts it when no row has that key, and sends post_save), the re-read
\* of the goal and the completion test.
time_log_edit_block(db, f, fail) ==
    LET delta == f.form.value - timedelta(f.old)
        m == PyRound(f.form.value)
        row == NewLog(f.goal, f.user, m, f.date)
        s1 == IF fail = "increment" THEN Raise(db)
              ELSE Ok(UpdateRealTime(db, f.goal, delta))
        s2 == IF ~s1.ok THEN s1
              ELSE IF fail = "save" THEN Raise(s1.db)
              ELSE IF f.log \in DOMAIN s1.db.logs
              THEN update_goal_and_streak(
                       [s1.db EXCEPT !.logs[f.log] = row], f.goal, m, FALSE, fail)
              ELSE IF f.goal \notin DOMAIN s1.db.goals THEN Raise(s1.db)
              ELSE update_goal_and_streak(
                       [s1.db EXCEPT !.logs = @ @@ (f.log :> row)],
                       f.goal, m, TRUE, fail)
    IN  IF ~s2.ok THEN s2
        ELSE IF fail = "reread" \/ f.goal \notin DOMAIN s2.db.goals
        THEN Raise(s2.db)
        ELSE LET goal == s2.db.goals[f.goal]
             IN  IF goal.real_time >= goal.target_time /\ ~goal.completed
                 THEN IF fail = "flag" THEN Raise(s2.db)
                      ELSE Ok(SaveCompleted(s2.db, f.goal, TRUE))
                 ELSE Ok(s2.db)

time_log_edit_txn(p) ==
    /\ req[p].pc = "edit_txn"
    /\ \E fail \in LogFailPoints :
         LET before == DB(goals, logs)
             out == time_log_edit_block(before, req[p], fail)
             after == Atomic(before, out)
         IN  /\ goals' = after.goals
             /\ logs' = after.logs
             /\ req' = [req EXCEPT ![p] =
                           Responded(@, IF out.ok THEN "updated" ELSE "500")]
    /\ UNCHANGED <<nextGoalId, nextLogId>>
    /\ UNCHANGED elsewhere

(***************************************************************************)
(* dashboard/views.py: time_log_delete_view (commented-out definition)     *)
(* The whole view is one atomic block (@transaction.atomic) and catches    *)
(* every exception inside it.                                              *)
(***************************************************************************)
\* get_object_or_404 raises Http404, which `except Exception` turns into the
\* JSON error response with status 500.
time_log_delete_view(p, u, l) ==
    /\ req[p].pc = "idle"
    /\ LET f == Begin("time_log_delete", u, 0, l, Absent, 0)
       IN  IF l \notin DOMAIN logs \/ logs[l].user # u
           THEN req' = [req EXCEPT ![p] = Rejected("time_log_delete", "500")]
           ELSE LET g == logs[l].goal
                IN  /\ g \in DOMAIN goals
                    /\ req' = [req EXCEPT ![p] =
                                 [f EXCEPT !.pc = "delete_txn", !.goal = g,
                                           !.old = logs[l].minutes,
                                           !.goal_obj = goals[g]]]
    /\ UNCHANGED <<goals, logs, nextGoalId, nextLogId>>
    /\ UNCHANGED elsewhere

DeleteFailPoints == {"none", "decrement", "delete"}

\* The block without its F() update.
time_log_delete_block_no_update(db, f, fail) ==
    IF fail # "none" THEN Raise(db)
    ELSE Ok([db EXCEPT !.logs = Without(@, f.log)])

\* The F() update by -minutes_to_subtract, log_instance.delete(), the re-read
\* and the test that takes completed back.  An UPDATE or DELETE that raises
\* marks the transaction for rollback (QuerySet.update, Collector.delete);
\* Goal.DoesNotExist from the re-read is only caught.
time_log_delete_block(db, f, fail) ==
    IF fail = "decrement" THEN Raise(db)
    ELSE LET d1 == UpdateRealTime(db, f.goal, -timedelta(f.old))
         IN  IF fail = "delete" THEN Raise(d1)
             ELSE LET d2 == [d1 EXCEPT !.logs = Without(@, f.log)]
                  IN  IF f.goal \notin DOMAIN d2.goals THEN Caught(d2)
                      ELSE LET goal == d2.goals[f.goal]
                           IN  IF goal.completed /\ goal.real_time < goal.target_time
                               THEN Ok(SaveCompleted(d2, f.goal, FALSE))
                               ELSE Ok(d2)

time_log_delete_txn(p) ==
    /\ req[p].pc = "delete_txn"
    /\ \E fail \in DeleteFailPoints :
         LET before == DB(goals, logs)
             out == time_log_delete_block(before, req[p], fail)
             after == Atomic(before, out)
         IN  /\ goals' = after.goals
             /\ logs' = after.logs
             /\ req' = [req EXCEPT ![p] =
                           Responded(@, IF out.ok THEN "success" ELSE "500")]
    /\ UNCHANGED <<nextGoalId, nextLogId>>
    /\ UNCHANGED elsewhere

(***************************************************************************)
(* dashboard/views.py: goal_edit_view, goal_delete_view                    *)
(***************************************************************************)
\* The goal is loaded, the requester must be its owner, the form is
\* validated against the loaded instance.
goal_edit_view(p, u, g, target_in, end_before_start) ==
    /\ req[p].pc = "idle"
    /\ LET f == Begin("goal_edit", u, g, 0, target_in, 0)
       IN  IF g \notin DOMAIN goals
           THEN req' = [req EXCEPT ![p] = Rejected("goal_edit", "404")]
           ELSE IF goals[g].user # u
           THEN req' = [req EXCEPT ![p] = Rejected("goal_edit", "forbidden")]
           ELSE IF ~GoalFormValid(target_in, end_before_start)
           THEN req' = [req EXCEPT ![p] = Rejected("goal_edit", "invalid")]
           ELSE req' = [req EXCEPT ![p] =
                           [f EXCEPT !.pc = "goal_save", !.goal_obj = goals[g]]]
    /\ UNCHANGED <<goals, logs, nextGoalId, nextLogId>>
    /\ UNCHANGED elsewhere

\* form.save(): Model.save writes every field of the loaded instance (an
\* UPDATE of the row, or an INSERT when no row has that key).
goal_edit_save(p) ==
    /\ req[p].pc = "goal_save"
    /\ \E posted \in PostedExtras :
         LET row == GoalFormSave(req[p].goal_obj, req[p].form, posted)
         IN  /\ goals' = (req[p].goal :> row) @@ goals
             /\ req' = [req EXCEPT ![p] = Responded([@ EXCEPT !.goal_obj = row], "updated")]
    /\ UNCHANGED <<logs, nextGoalId, nextLogId>>
    /\ UNCHANGED elsewhere

\* A delete whose foreign key does not cascade.
goal_delete_view_keeping_logs(p, u, g) ==
    /\ req[p].pc = "idle"
    /\ g \in DOMAIN goals /\ goals[g].user = u
    /\ goals' = Without(goals, g)
    /\ req' = [req EXCEPT ![p] =
                 Responded(Begin("goal_delete", u, g, 0, Absent, 0), "deleted")]
    /\ UNCHANGED <<logs, nextGoalId, nextLogId>>
    /\ UNCHANGED elsewhere

\* goal.delete() by the owner; the TimeLog foreign key cascades.
goal_delete_view(p, u, g) ==
    /\ req[p].pc = "idle"
    /\ LET f == Begin("goal_delete", u, g, 0, Absent, 0)
       IN  IF g \notin DOMAIN goals
           THEN /\ req' = [req EXCEPT ![p] = Rejected("goal_delete", "404")]
                /\ UNCHANGED <<goals, logs>>
           ELSE IF goals[g].user # u
           THEN /\ req' = [req EXCEPT ![p] = Rejected("goal_delete", "forbidden")]
                /\ UNCHANGED <<goals, logs>>
           ELSE /\ goals' = Without(goals, g)
                /\ logs' = [l \in {x \in DOMAIN logs : logs[x].goal # g} |-> logs[l]]
                /\ req' = [req EXCEPT ![p] = Responded(f, "deleted")]
    /\ UNCHANGED <<nextGoalId, nextLogId>>
    /\ UNCHANGED elsewhere

(***************************************************************************)
(* dashboard/views.py: dashboard_view.  Dates are day numbers; today is    *)
(* date.today().                                                           *)
(***************************************************************************)
\* int(x) of a quotient a / b, b > 0: truncation towards zero.
PyIntDiv(a, b) == IF a >= 0 THEN a \div b ELSE -((-a) \div b)

\* min(100, int((real_time_minutes / target_time_minutes) * 100)), or 0 when
\* the target is not positive.
progress_percentage(goal) ==
    IF goal.target_time > 0
    THEN LET pct == PyIntDiv(goal.real_time * 100, goal.target_time)
         IN  IF pct < 100 THEN pct ELSE 100
    ELSE 0

\* The dates of the time logs of every goal.
logged_dates_any_goal(g) == {logs[l].log_date : l \in DOMAIN logs}

\* set(TimeLog.objects.filter(goal=goal).dates('log_date', 'day'))
logged_dates_set(g) == {logs[l].log_date : l \in {x \in DOMAIN logs : logs[x].goal = g}}

\* while check_date in logged_dates_set: current_streak += 1; check_date -= 1 day
RECURSIVE StreakLoop(_, _)
StreakLoop(dates, check_date) ==
    IF check_date \in dates THEN 1 + StreakLoop(dates, check_date - 1) ELSE 0

\* A streak that counts from the reference day only.
current_streak_today_only(dates, day) == StreakLoop(dates, day)

\* A streak that counts from the last logged day, however long ago.
current_streak_from_last(dates, day) ==
    LET past == {d \in dates : d <= day}
    IN  IF past = {} THEN 0
        ELSE StreakLoop(dates, CHOOSE d \in past : \A e \in past : e <= d)

\* check_date = today, or yesterday when today is not logged; then the loop.
current_streak(dates, day) ==
    LET check_date == IF day \notin dates THEN day - 1 ELSE day
    IN  StreakLoop(dates, check_date)

\* The context the view renders for user u.
dashboard_context(u) ==
    LET user_goals == {g \in DOMAIN goals : goals[g].user = u}
    IN  [today |-> today,
         goals_with_progress |->
             [g \in user_goals |->
                 [progress_percentage |-> progress_percentage(goals[g]),
                  current_streak |-> current_streak(logged_dates_set(g), today)]],
         completed_goals_count |->
             Cardinality({g \in user_goals : goals[g].completed})]

\* A dashboard that marks the goals it shows as completed.
dashboard_view_marking(p, u) ==
    /\ req[p].pc = "idle"
    /\ req' = [req EXCEPT ![p] =
                 Responded([Begin("dashboard", u, 0, 0, Absent, 0)
                               EXCEPT !.context = dashboard_context(u)], "rendered")]
    /\ goals' = [g \in DOMAIN goals |->
                    IF goals[g].user = u THEN [goals[g] EXCEPT !.completed = TRUE]
                    ELSE goals[g]]
    /\ UNCHANGED <<logs, nextGoalId, nextLogId>>
    /\ UNCHANGED elsewhere

\* The view only reads: it builds its context and renders it.
dashboard_view(p, u) ==
    /\ req[p].pc = "idle"
    /\ req' = [req EXCEPT ![p] =
                 Responded([Begin("dashboard", u, 0, 0, Absent, 0)
                               EXCEPT !.context = dashboard_context(u)], "rendered")]
    /\ UNCHANGED <<goals, logs, nextGoalId, nextLogId>>
    /\ UNCHANGED elsewhere

\* Midnight: date.today() is the next day.
Tick ==
    /\ today < MaxDay
    /\ today' = today + 1
    /\ UNCHANGED <<goals, logs, nextGoalId, nextLogId, req, team_goals, team_logs,
                   teams, memberships>>

(***************************************************************************)
(* teams/views.py: team_goal_create_view, team_time_log_create_view, for   *)
(* the team TheTeam, whose goals and time logs team_goals and team_logs    *)
(* are.  team_member is the TeamMember table read for that team: the role  *)
(* of each user who is on it.                                              *)
(***************************************************************************)
TheTeam == 1

\* min_length of TeamForm.team_name, and the test of clean_team_name.
MinNameLen == 3

NewMember(u, t, role) == [user |-> u, team |-> t, role |-> role]

\* The TeamMember rows of user u and team t.
MemberRows(ms, u, t) == {i \in DOMAIN ms : ms[i].user = u /\ ms[i].team = t}

team_member ==
    [u \in {x \in Users : MemberRows(memberships, x, TheTeam) # {}} |->
        memberships[CHOOSE i \in MemberRows(memberships, u, TheTeam) : TRUE].role]

\* TeamGoal defaults: real_time = timedelta(seconds=0), completed = False.
NewTeamGoal(target) == [target_time |-> target, real_time |-> 0, completed |-> FALSE]

\* TeamGoalForm: target_time is a required DurationField; real_time and
\* completed are not fields of the form.
TeamGoalFormValid(target_in) == target_in.given

\* TeamTimeLogForm: minutes is the model's IntegerField with
\* MinValueValidator(1), so a whole number of minutes, at least 1.
TeamTimeLogFormValid(minutes_in) ==
    /\ minutes_in.given
    /\ minutes_in.value % TicksPerMinute = 0
    /\ minutes_in.value >= 1 * TicksPerMinute

team_goal_create_view(p, u, target_in) ==
    /\ req[p].pc = "idle"
    /\ Cardinality(DOMAIN team_goals) < MaxGoals
    /\ LET id == Cardinality(DOMAIN team_goals) + 1
           f == Begin("team_goal_create", u, id, 0, target_in, 0)
       IN  IF u \notin DOMAIN team_member
           THEN /\ req' = [req EXCEPT ![p] = Rejected("team_goal_create", "404")]
                /\ UNCHANGED team_goals
           ELSE IF team_member[u] # "ADMIN"
           THEN /\ req' = [req EXCEPT ![p] = Rejected("team_goal_create", "forbidden")]
                /\ UNCHANGED team_goals
           ELSE IF ~TeamGoalFormValid(target_in)
           THEN /\ req' = [req EXCEPT ![p] = Rejected("team_goal_create", "invalid")]
                /\ UNCHANGED team_goals
           ELSE /\ team_goals' = team_goals @@
                       (id :> NewTeamGoal(timedelta(target_in.value)))
                /\ req' = [req EXCEPT ![p] = Responded(f, "created")]
    /\ UNCHANGED <<goals, logs, nextGoalId, nextLogId, today, team_logs,
                   teams, memberships>>

\* The log is saved; the goal is not written (the lines that would add the
\* minutes to goal.real_time are a comment).
team_time_log_create_view(p, u, g, minutes_in, d) ==
    /\ req[p].pc = "idle"
    /\ Cardinality(DOMAIN team_logs) < MaxLogs
    /\ LET id == Cardinality(DOMAIN team_logs) + 1
           f == Begin("team_time_log", u, g, id, minutes_in, d)
       IN  IF g \notin DOMAIN team_goals
           THEN /\ req' = [req EXCEPT ![p] = Rejected("team_time_log", "404")]
                /\ UNCHANGED team_logs
           ELSE IF u \notin DOMAIN team_member
           THEN /\ req' = [req EXCEPT ![p] = Rejected("team_time_log", "forbidden")]
                /\ UNCHANGED team_logs
           ELSE IF ~TeamTimeLogFormValid(minutes_in)
           THEN /\ req' = [req EXCEPT ![p] = Rejected("team_time_log", "invalid")]
                /\ UNCHANGED team_logs
           ELSE /\ team_logs' = team_logs @@
                       (id :> NewLog(g, u, PyInt(minutes_in.value), d))
                /\ req' = [req EXCEPT ![p] = Responded(f, "logged")]
    /\ UNCHANGED <<goals, logs, nextGoalId, nextLogId, today, team_goals,
                   teams, memberships>>

(***************************************************************************)
(* teams/forms.py: TeamForm; teams/views.py: team_create_view.             *)
(***************************************************************************)
NewTeam(name) == [team_name |-> name]

\* The names posted: one too short, and two that differ in case only.
TeamNames == {"ab", "crew", "Crew", "team"}
NameLen == [ab |-> 2, crew |-> 4, Crew |-> 4, team |-> 4]
Lower(name) == IF name = "Crew" THEN "crew" ELSE name

\* clean_team_name: at least 3 characters, and no team of that name,
\* compared case-insensitively (team_name__iexact).
TeamFormValid(ts, name) ==
    /\ NameLen[name] >= MinNameLen
    /\ ~\E t \in DOMAIN ts : Lower(ts[t].team_name) = Lower(name)

TeamDB(ts, ms) == [teams |-> ts, memberships |-> ms]

TeamCreateInFlight == {q \in Requests : req[q].pc = "team_txn"}

\* The form is validated; then the atomic block.
team_create_view(p, u, name) ==
    /\ req[p].pc = "idle"
    /\ Cardinality(DOMAIN teams) + Cardinality(TeamCreateInFlight) < MaxTeams
    /\ IF ~TeamFormValid(teams, name)
       THEN req' = [req EXCEPT ![p] = Rejected("team_create", "invalid")]
       ELSE req' = [req EXCEPT ![p] =
                       [Begin("team_create", u, 0, 0, Absent, 0)
                           EXCEPT !.pc = "team_txn", !.team_name = name]]
    /\ UNCHANGED <<goals, logs, nextGoalId, nextLogId, today, team_goals, team_logs,
                   teams, memberships>>

\* fail names the statement at which the storage layer raises, and error
\* the exception it raises there.
TeamFailPoints == {"none", "team", "member"}
TeamErrors == {"IntegrityError", "DatabaseError"}

\* A block whose exception is caught inside it: the team stays when the
\* membership cannot be created.
team_create_block_caught_inside(db, id, f, fail) ==
    IF fail = "team" THEN Raise(db)
    ELSE LET d1 == [db EXCEPT !.teams = @ @@ (id :> NewTeam(f.team_name))]
         IN  IF fail = "member" THEN Caught(d1)
             ELSE Ok([d1 EXCEPT !.memberships =
                         @ @@ ((Cardinality(DOMAIN @) + 1) :> NewMember(f.user, id, "ADMIN"))])

\* The body of the atomic block: team = form.save(), then
\* TeamMember.objects.create(user=request.user, team=team, role=ADMIN).
\* post_save of TeamMember (send_notification_on_join) does nothing for an
\* ADMIN row.
team_create_block(db, id, f, fail) ==
    IF fail = "team" THEN Raise(db)
    ELSE LET d1 == [db EXCEPT !.teams = @ @@ (id :> NewTeam(f.team_name))]
         IN  IF fail = "member" THEN Raise(d1)
             ELSE Ok([d1 EXCEPT !.memberships =
                         @ @@ ((Cardinality(DOMAIN @) + 1) :> NewMember(f.user, id, "ADMIN"))])

\* with transaction.atomic(): ...; except IntegrityError outside the block:
\* the block is rolled back, then the error message is rendered.  Any other
\* exception leaves the view.
team_create_txn(p) ==
    /\ req[p].pc = "team_txn"
    /\ \E fail \in TeamFailPoints, error \in TeamErrors :
         LET before == TeamDB(teams, memberships)
             id == Cardinality(DOMAIN teams) + 1
             out == team_create_block(before, id, req[p], fail)
             after == Atomic(before, out)
         IN  /\ teams' = after.teams
             /\ memberships' = after.memberships
             /\ req' = [req EXCEPT ![p] =
                           IF out.ok THEN Responded([@ EXCEPT !.team = id], "created")
                           ELSE IF error = "IntegrityError" THEN Responded(@, "failed")
                           ELSE Responded(@, "500")]
    /\ UNCHANGED <<goals, logs, nextGoalId, nextLogId, today, team_goals, team_logs>>

(***************************************************************************)
(* teams/views.py: team_join_view.  No atomic block: each statement is its *)
(* own transaction.                                                        *)
(***************************************************************************)
\* get_object_or_404(Team, pk=team_id), then the exists() test.
team_join_view(p, u, t) ==
    /\ req[p].pc = "idle"
    /\ LET f == [Begin("team_join", u, 0, 0, Absent, 0) EXCEPT !.team = t]
       IN  IF t \notin DOMAIN teams
           THEN req' = [req EXCEPT ![p] = Rejected("team_join", "404")]
           ELSE IF MemberRows(memberships, u, t) # {}
           THEN req' = [req EXCEPT ![p] = Responded(f, "already a member")]
           ELSE req' = [req EXCEPT ![p] = [f EXCEPT !.pc = "join_create"]]
    /\ UNCHANGED <<goals, logs, nextGoalId, nextLogId, today, team_goals, team_logs,
                   teams, memberships>>

JoinFailPoints == {"none", "insert", "notify"}

\* An INSERT into a table without the unique constraint.
team_join_create_unconstrained(p) ==
    /\ req[p].pc = "join_create"
    /\ memberships' = memberships @@
           ((Cardinality(DOMAIN memberships) + 1) :>
               NewMember(req[p].user, req[p].team, "MEMBER"))
    /\ req' = [req EXCEPT ![p] = Responded(@, "joined")]
    /\ UNCHANGED <<goals, logs, nextGoalId, nextLogId, today, team_goals, team_logs,
                   teams>>

\* TeamMember.objects.create(user=request.user, team=team, role=MEMBER):
\* the INSERT fails on unique_together = ('user', 'team') when the row is
\* there; after it post_save notifies the team's admins.  except Exception
\* turns every failure into the error message; a failure of the
\* notification leaves the inserted row.
team_join_create(p) ==
    /\ req[p].pc = "join_create"
    /\ \E fail \in JoinFailPoints :
         IF fail = "insert"
         THEN /\ req' = [req EXCEPT ![p] = Responded(@, "failed: error")]
              /\ UNCHANGED memberships
         ELSE IF MemberRows(memberships, req[p].user, req[p].team) # {}
         THEN /\ req' = [req EXCEPT ![p] = Responded(@, "failed: unique")]
              /\ UNCHANGED memberships
         ELSE /\ memberships' = memberships @@
                     ((Cardinality(DOMAIN memberships) + 1) :>
                         NewMember(req[p].user, req[p].team, "MEMBER"))
              /\ req' = [req EXCEPT ![p] =
                            Responded(@, IF fail = "notify" THEN "failed: error"
                                         ELSE "joined")]
    /\ UNCHANGED <<goals, logs, nextGoalId, nextLogId, today, team_goals, team_logs,
                   teams>>

(***************************************************************************)
(* Specifications.                                                         *)
(***************************************************************************)
Init ==
    /\ goals = <<>>
    /\ logs = <<>>
    /\ nextGoalId = 1
    /\ nextLogId = 1
    /\ req = [p \in Requests |-> Idle]
    /\ today = 1
    /\ team_goals = <<>>
    /\ team_logs = <<>>
    /\ teams = <<>>
    /\ memberships = <<>>

\* The requests of each view, with the users and inputs they are drawn from.
GoalCreate(p, US) ==
    \E u \in US, t \in TargetInputs, e \in BOOLEAN, x \in PostedExtras :
        goal_create_view(p, u, t, e, x)

LogTimeBegin(p, US, DS) ==
    \E u \in US, g \in GoalIds, m \in MinutesInputs, d \in DS :
        time_log_view(p, u, g, m, d)

LogEditBegin(p, US, DS) ==
    \E u \in US, l \in LogIds, m \in MinutesInputs, d \in DS :
        time_log_edit_view(p, u, l, m, d)

LogDeleteBegin(p, US) == \E u \in US, l \in LogIds : time_log_delete_view(p, u, l)

GoalEditBegin(p, US) ==
    \E u \in US, g \in GoalIds, t \in TargetInputs, e \in BOOLEAN :
        goal_edit_view(p, u, g, t, e)

GoalDelete(p, US) == \E u \in US, g \in GoalIds : goal_delete_view(p, u, g)

\* One request at a time.  Goals belong to the first user; the second
\* user's requests are the ones of a stranger.  Run one at a time,
\* time_log_view never reaches its own completion write (time_log_complete):
\* the signal has set the flag inside the block.
Owners == {"u1"}

Next ==
    \/ GoalCreate("r1", Owners)
    \/ LogTimeBegin("r1", Users, Dates)
    \/ time_log_txn("r1")
    \/ time_log_refresh("r1")
    \/ LogEditBegin("r1", Users, Dates)
    \/ time_log_edit_txn("r1")
    \/ LogDeleteBegin("r1", Users)
    \/ time_log_delete_txn("r1")
    \/ GoalEditBegin("r1", Users)
    \/ goal_edit_save("r1")
    \/ GoalDelete("r1", Users)
    \/ Return("r1")

Spec == Init /\ [][Next]_vars


(***************************************************************************)
(* Two requests at a time on the journal of one user.                      *)
(***************************************************************************)
\* Concurrent time_log_view requests.
NextLogRace ==
    \/ GoalCreate("r1", Owners)
    \/ \E p \in Requests :
         \/ LogTimeBegin(p, Owners, {1})
         \/ time_log_txn(p)
         \/ time_log_refresh(p)
         \/ Return(p)

SpecLogRace == Init /\ [][NextLogRace]_vars

\* Concurrent time_log_delete_view requests, on entries made one at a time.
NextDeleteRace ==
    \/ GoalCreate("r1", Owners)
    \/ LogTimeBegin("r1", Owners, {1})
    \/ time_log_txn("r1")
    \/ time_log_refresh("r1")
    \/ \E p \in Requests :
         \/ LogDeleteBegin(p, Owners)
         \/ time_log_delete_txn(p)
         \/ Return(p)

SpecDeleteRace == Init /\ [][NextDeleteRace]_vars

\* A goal edited or deleted by one request while a time_log_view request of
\* its owner runs.
NextGoalRace ==
    \/ GoalCreate("r1", Owners)
    \/ LogTimeBegin("r1", Owners, {1})
    \/ time_log_txn("r1")
    \/ time_log_refresh("r1")
    \/ time_log_complete("r1")
    \/ GoalEditBegin("r2", Owners)
    \/ goal_edit_save("r2")
    \/ GoalDelete("r2", Owners)
    \/ \E p \in Requests : Return(p)

SpecGoalRace == Init /\ [][NextGoalRace]_vars

\* The goal form posted by two requests at a time: goals created by their
\* owner and edited by either user.
NextGoalForm ==
    \E p \in Requests :
        \/ GoalCreate(p, Owners)
        \/ GoalEditBegin(p, Users)
        \/ goal_edit_save(p)
        \/ Return(p)

SpecGoalForm == Init /\ [][NextGoalForm]_vars

\* The dashboard read on successive days over a journal that no longer
\* changes: one goal of the first user with entries of one minute each,
\* dated on any days up to LastLogDay.
LogDays == 1..LastLogDay

InitDashboard ==
    \E n \in 0..MaxLoggedEntries, target \in {timedelta(2), timedelta(3)} :
      \E days \in [1..n -> LogDays] :
        /\ goals = (1 :> [NewGoal("u1", target) EXCEPT
                             !.real_time = timedelta(n),
                             !.completed = (timedelta(n) >= target)])
        /\ logs = [i \in 1..n |-> NewLog(1, "u1", 1, days[i])]
        /\ nextGoalId = 2
        /\ nextLogId = n + 1
        /\ req = [p \in Requests |-> Idle]
        /\ today = 1
        /\ team_goals = <<>>
        /\ team_logs = <<>>
        /\ teams = <<>>
        /\ memberships = <<>>

NextDashboard ==
    \/ \E p \in Requests, u \in Users : dashboard_view(p, u)
    \/ Tick
    \/ \E p \in Requests : Return(p)

SpecDashboard == InitDashboard /\ [][NextDashboard]_vars

\* The dashboard read while the journal grows: the first user has two goals
\* and logs one minute at a time on either, dated on any day up to
\* LastLogDay; both requests read the dashboard.
InitStreak ==
    /\ goals = [g \in GoalIds |-> NewGoal("u1", timedelta(3))]
    /\ logs = <<>>
    /\ nextGoalId = MaxGoals + 1
    /\ nextLogId = 1
    /\ req = [p \in Requests |-> Idle]
    /\ today = 1
    /\ team_goals = <<>>
    /\ team_logs = <<>>
    /\ teams = <<>>
    /\ memberships = <<>>

LogMinute(p) ==
    \E g \in GoalIds, d \in LogDays : time_log_view(p, "u1", g, Given(timedelta(1)), d)

NextStreak ==
    \/ LogMinute("r1")
    \/ time_log_txn("r1")
    \/ time_log_refresh("r1")
    \/ \E p \in Requests : dashboard_view(p, "u1")
    \/ Tick
    \/ \E p \in Requests : Return(p)

SpecStreak == InitStreak /\ [][NextStreak]_vars

\* The goals and the time logs of a team.
TeamTargetInputs == {Absent} \cup {Given(m) : m \in {2, 3}}

TeamGoalCreate(p) ==
    \E u \in Users, t \in TeamTargetInputs : team_goal_create_view(p, u, t)

TeamLogTime(p) ==
    \E u \in Users, g \in GoalIds, m \in MinutesInputs, d \in Dates :
        team_time_log_create_view(p, u, g, m, d)

NextTeam ==
    \E p \in Requests :
        \/ TeamGoalCreate(p)
        \/ TeamLogTime(p)
        \/ Return(p)

\* Teams created and joined by two requests at a time.
TeamIds == 1..MaxTeams

TeamCreate(p) == \E u \in Users, name \in TeamNames : team_create_view(p, u, name)

TeamJoin(p) == \E u \in Users, t \in TeamIds : team_join_view(p, u, t)

NextTeamJoin ==
    \E p \in Requests :
        \/ TeamCreate(p)
        \/ team_create_txn(p)
        \/ TeamJoin(p)
        \/ team_join_create(p)
        \/ Return(p)

SpecTeamJoin == Init /\ [][NextTeamJoin]_vars

\* The team exists: the first user created it and the second has joined.
InitTeam ==
    /\ goals = <<>>
    /\ logs = <<>>
    /\ nextGoalId = 1
    /\ nextLogId = 1
    /\ req = [p \in Requests |-> Idle]
    /\ today = 1
    /\ team_goals = <<>>
    /\ team_logs = <<>>
    /\ teams = (TheTeam :> NewTeam("crew"))
    /\ memberships = (1 :> NewMember("u1", TheTeam, "ADMIN"))
                        @@ (2 :> NewMember("u2", TheTeam, "MEMBER"))

SpecTeam == InitTeam /\ [][NextTeam]_vars

(***************************************************************************)
(* Properties.                                                             *)
(***************************************************************************)
Quiet == \A p \in Requests : req[p].pc \in {"idle", "done"}

Answered(p, view, r) ==
    req[p].pc = "done" /\ req[p].view = view /\ req[p].resp = r

NoLogComplete == \A p \in Requests : req[p].pc # "log_complete"


JournalViews == {"time_log", "time_log_edit", "time_log_delete"}
Success == {"logged", "congratulations", "updated", "success"}

(* C1: whenever no request is in progress, every goal's real_time is the  *)
(* sum of the minutes of the time logs that reference it.                 *)
C1_SumInvariant ==
    Quiet => \A g \in DOMAIN goals : goals[g].real_time = timedelta(LoggedMinutes(g))

(* C2: when a create, edit or delete of a time log has succeeded, the     *)
(* goal's completed flag is true iff its real_time has reached its        *)
(* target_time.                                                           *)
C2_CompletedIffReached ==
    \A p \in Requests :
        (/\ req[p].pc = "done"
         /\ req[p].view \in JournalViews
         /\ req[p].resp \in Success
         /\ req[p].goal \in DOMAIN goals)
            => (goals[req[p].goal].completed
                  <=> goals[req[p].goal].real_time >= goals[req[p].goal].target_time)

(* C3: with time_log_view requests running concurrently, every goal's     *)
(* real_time is at all times the sum of the minutes of its committed time *)
(* logs: no increment is lost.                                            *)
C3_NoLostUpdate ==
    \A g \in DOMAIN goals : goals[g].real_time = timedelta(LoggedMinutes(g))

\* Two requests that both loaded the goal at real_time 0 have both
\* committed one minute, and the goal stands at two.
C3_Witness ==
    /\ req["r1"].pc = "log_refresh" /\ req["r2"].pc = "log_refresh"
    /\ req["r1"].goal = req["r2"].goal
    /\ req["r1"].goal_obj.real_time = 0 /\ req["r2"].goal_obj.real_time = 0
    /\ req["r1"].form.value = timedelta(1) /\ req["r2"].form.value = timedelta(1)
    /\ goals[req["r1"].goal].real_time = timedelta(2)

C5_NewGoalStartsAtZero ==
    \A p \in Requests :
        Answered(p, "goal_create", "created")
            => /\ goals[req[p].goal].real_time = 0
               /\ ~goals[req[p].goal].completed

C5_Witness ==
    /\ Answered("r1", "goal_create", "created")
    /\ req["r1"].posted.completed
    /\ req["r1"].posted.real_time > 0

\* A minutes value that is missing or not positive.
BadMinutes(m) == ~m.given \/ m.value <= 0

(* C6: a time_log_view request whose minutes are missing or not positive  *)
(* is answered at once, with the form's validation error (or 404 when the *)
(* goal is not the requester's), and no goal and no time log changes.     *)
C6_InvalidMinutesRejected ==
    [][\A p \in Requests :
          (req[p].pc = "idle" /\ req'[p].view = "time_log" /\ BadMinutes(req'[p].form))
              => /\ UNCHANGED <<goals, logs>>
                 /\ req'[p].pc = "done"
                 /\ req'[p].resp \in {"invalid", "404"}]_vars

C6_Witness ==
    /\ Answered("r1", "time_log", "invalid")
    /\ BadMinutes(req["r1"].form)
    /\ req["r1"].form.given
    /\ goals # <<>>


(* C7: the step in which time_log_edit_view commits changes the goal's    *)
(* real_time by the entry's new minutes less its old minutes.             *)
C7_EditAppliesDifference ==
    [][\A p \in Requests :
          (/\ req[p].pc = "edit_txn" /\ req'[p].resp = "updated"
           /\ req[p].log \in DOMAIN logs /\ req[p].log \in DOMAIN logs'
           /\ req[p].goal \in DOMAIN goals)
              => goals'[req[p].goal].real_time
                   = goals[req[p].goal].real_time
                       + timedelta(logs'[req[p].log].minutes - logs[req[p].log].minutes)]_vars

(* C8: the step in which time_log_delete_view commits removes the entry   *)
(* and lowers the goal's real_time by that entry's minutes.               *)
C8_DeleteSubtractsEntry ==
    [][\A p \in Requests :
          (/\ req[p].pc = "delete_txn" /\ req'[p].resp = "success"
           /\ req[p].log \in DOMAIN logs)
              => /\ req[p].log \notin DOMAIN logs'
                 /\ goals'[req[p].goal].real_time
                      = goals[req[p].goal].real_time
                          - timedelta(logs[req[p].log].minutes)]_vars

C8_Witness ==
    /\ Answered("r1", "time_log_delete", "success")
    /\ req["r1"].log \notin DOMAIN logs
    /\ req["r1"].old > 0

(* C9: a delete of an entry that is already gone fails and leaves every   *)
(* goal as it is.                                                         *)
C9_SecondDeleteSubtractsNothing ==
    [][\A p \in Requests :
          (req[p].pc = "delete_txn" /\ req[p].log \notin DOMAIN logs)
              => (goals' = goals /\ req'[p].resp # "success")]_vars

(* C10: no goal's real_time is ever negative.                             *)
C10_NonNegative == \A g \in DOMAIN goals : goals[g].real_time >= 0

\* The step is request p's commit of a journal transaction.
LedgerCommit(p) ==
    /\ req[p].pc \in {"log_txn", "edit_txn", "delete_txn"}
    /\ req'[p].pc # req[p].pc

(* C11: a goal's real_time is changed only by the step that commits a     *)
(* journal transaction (the F() update); no other step, a goal edit in    *)
(* particular, changes it.                                                *)
C11_OnlyLedgerWritesRealTime ==
    [][\A g \in DOMAIN goals \cap DOMAIN goals' :
          goals'[g].real_time # goals[g].real_time
              => \E p \in Requests : LedgerCommit(p)]_vars

(* C12: when time_log_view's block runs for a goal that has been deleted  *)
(* since the view looked it up, the request fails, no time log of that    *)
(* goal exists afterwards and every goal is as it was.                    *)
C12_DeltaForDeletedGoalFails ==
    [][\A p \in Requests :
          (/\ req[p].pc = "log_txn" /\ req'[p].pc # "log_txn"
           /\ req[p].goal \notin DOMAIN goals)
              => /\ req'[p].resp = "500"
                 /\ goals' = goals
                 /\ \A l \in DOMAIN logs' : logs'[l].goal # req[p].goal]_vars

\* The log request has failed on the goal that the other request deleted,
\* and another goal is still there.
C12_Witness ==
    /\ Answered("r1", "time_log", "500")
    /\ Answered("r2", "goal_delete", "deleted")
    /\ req["r1"].goal = req["r2"].goal
    /\ req["r1"].goal \notin DOMAIN goals
    /\ goals # <<>>

\* The dashboard has answered request p.
Rendered(p) == Answered(p, "dashboard", "rendered")
Shown(p) == DOMAIN req[p].context.goals_with_progress

\* The number of consecutive days in dates, counted backwards from day c.
RunBack(dates, c) ==
    Cardinality({k \in 1..(MaxDay + 1) : \A i \in 0..(k - 1) : (c - i) \in dates})

(* C13: the streak the dashboard shows for a goal on reference day D is   *)
(* the number of consecutive logged days counted backwards from D when D  *)
(* is logged, and from D - 1 otherwise (so 0 when neither is logged).     *)
C13_StreakCountsBack ==
    \A p \in Requests :
        Rendered(p) =>
            \A g \in Shown(p) :
                LET D == req[p].context.today
                    dates == logged_dates_set(g)
                IN  req[p].context.goals_with_progress[g].current_streak
                        = IF D \in dates THEN RunBack(dates, D)
                          ELSE RunBack(dates, D - 1)

\* Logged on D-2 and D-1 and not on D: the streak shown is 2.
C13_Witness ==
    /\ Rendered("r1")
    /\ \E g \in Shown("r1") :
          LET D == req["r1"].context.today
          IN  /\ logged_dates_set(g) = {D - 2, D - 1}
              /\ req["r1"].context.goals_with_progress[g].current_streak = 2

\* The last day on which goal g was logged.
LastLogged(g) == CHOOSE d \in logged_dates_set(g) : \A e \in logged_dates_set(g) : e <= d

(* C14: with no new entries, the streak shown on the last logged day L is *)
(* at least 1, the one shown on day L + 1 is the same, and the one shown  *)
(* on day L + 2 or later is 0.                                            *)
C14_OneDayOfGrace ==
    \A p, q \in Requests :
        (Rendered(p) /\ Rendered(q)) =>
            \A g \in Shown(p) \cap Shown(q) :
                logged_dates_set(g) # {} =>
                    LET L == LastLogged(g)
                        n == req[p].context.goals_with_progress[g].current_streak
                        m == req[q].context.goals_with_progress[g].current_streak
                    IN  /\ req[p].context.today = L => n >= 1
                        /\ (req[p].context.today = L /\ req[q].context.today = L + 1)
                               => m = n
                        /\ req[q].context.today >= L + 2 => m = 0

\* A streak of 2 read on its last day and read again the day after.
C14_Witness ==
    /\ Rendered("r1") /\ Rendered("r2")
    /\ \E g \in Shown("r1") \cap Shown("r2") :
          /\ logged_dates_set(g) # {}
          /\ req["r1"].context.today = LastLogged(g)
          /\ req["r2"].context.today = LastLogged(g) + 1
          /\ req["r1"].context.goals_with_progress[g].current_streak = 2
          /\ req["r2"].context.goals_with_progress[g].current_streak = 2

(* C15: a dashboard query writes nothing: the step that answers it leaves *)
(* every goal and every time log as it was.                               *)
C15_DashboardWritesNothing ==
    [][\A p \in Requests :
          (req[p].pc = "idle" /\ req'[p].view = "dashboard")
              => UNCHANGED <<goals, logs, team_goals, team_logs>>]_vars

\* Two queries answered over a goal that has entries.
C15_Witness ==
    /\ Rendered("r1") /\ Rendered("r2")
    /\ Shown("r1") # {} /\ Shown("r2") # {}
    /\ logs # <<>>

\* round(a / b) for a >= 0, b > 0: to the nearest integer, a tie to the even
\* neighbour.
RoundDiv(a, b) ==
    LET q == a \div b
        r == a % b
    IN  IF 2 * r < b THEN q
        ELSE IF 2 * r > b THEN q + 1
        ELSE IF q % 2 = 0 THEN q ELSE q + 1

Clamp(lo, hi, x) == IF x < lo THEN lo ELSE IF x > hi THEN hi ELSE x

(* C16: the percentage the dashboard shows for a goal with a positive     *)
(* target is round(real_time / target_time * 100) clamped to 0..100, and  *)
(* it is 0 for a goal whose target is not positive.                       *)
C16_PercentageRounded ==
    \A p \in Requests :
        Rendered(p) =>
            \A g \in Shown(p) :
                req[p].context.goals_with_progress[g].progress_percentage
                    = IF goals[g].target_time > 0
                      THEN Clamp(0, 100, RoundDiv(goals[g].real_time * 100,
                                                  goals[g].target_time))
                      ELSE 0

(* C17: the step that deletes a goal removes every time log of that goal *)
(* and leaves the other goals and their time logs as they were; after    *)
(* every step each time log references a goal that exists.               *)
C17_GoalDeleteCascades ==
    [][/\ \A l \in DOMAIN logs' : logs'[l].goal \in DOMAIN goals'
       /\ \A p \in Requests :
            (/\ req[p].pc = "idle"
             /\ req'[p].view = "goal_delete" /\ req'[p].resp = "deleted")
                => LET g == req'[p].goal
                   IN  /\ g \notin DOMAIN goals'
                       /\ goals' = Without(goals, g)
                       /\ \A l \in DOMAIN logs :
                            logs[l].goal # g
                                => (l \in DOMAIN logs' /\ logs'[l] = logs[l])]_vars

\* Two entries were saved, one goal was deleted, and the entry that is left
\* is the other goal's.
C17_Witness ==
    /\ Answered("r2", "goal_delete", "deleted")
    /\ req["r2"].goal \notin DOMAIN goals
    /\ nextLogId = 3
    /\ Cardinality(DOMAIN logs) = 1
    /\ \E g \in DOMAIN goals : LoggedMinutes(g) > 0

\* m is an integer nearest to t ticks.
Nearest(m, t) ==
    /\ 2 * (timedelta(m) - t) <= TicksPerMinute
    /\ 2 * (t - timedelta(m)) <= TicksPerMinute

(* C18: an entry that time_log_view or time_log_edit_view persists has    *)
(* minutes >= 1, the posted value rounded to the nearest integer; what    *)
(* the same step adds to the goal is a whole number of minutes, and for a *)
(* new entry exactly the persisted minutes.                               *)
C18_DeltaIsPersistedMinutes ==
    [][\A p \in Requests :
          LET created == req[p].pc = "log_txn" /\ req'[p].pc = "log_refresh"
              edited == req[p].pc = "edit_txn" /\ req'[p].resp = "updated"
              l == req'[p].log
              g == req[p].goal
              delta == goals'[g].real_time - goals[g].real_time
          IN  (created \/ edited)
                  => /\ logs'[l].minutes >= 1
                     /\ Nearest(logs'[l].minutes, req[p].form.value)
                     /\ delta % TicksPerMinute = 0
                     /\ created => delta = timedelta(logs'[l].minutes)]_vars

(* C19: the completion test that time_log_view makes after its block, on  *)
(* the goal the signal has just tested, never finds anything to change:   *)
(* the request answers without writing.                                   *)
C19_SecondCheckChangesNothing ==
    [][\A p \in Requests :
          (req[p].pc = "log_refresh" /\ req'[p].pc # "log_refresh")
              => /\ req'[p].pc = "done" /\ req'[p].resp = "logged"
                 /\ req'[p].goal_obj.completed = goals[req[p].goal].completed
                 /\ goals' = goals]_vars

\* The first entry ever saved completed its goal in the signal, and the
\* view's own test has run after it.
C19_Witness ==
    /\ Answered("r1", "time_log", "logged")
    /\ nextLogId = 2
    /\ req["r1"].goal \in DOMAIN goals
    /\ goals[req["r1"].goal].completed
    /\ req["r1"].goal_obj.completed

\* The sum of the minutes of the team time logs that reference team goal g.
LoggedTeamMinutes(g) == SumMinutes(team_logs, DOMAIN team_logs, g)

(* C20: every team goal's real_time is the sum of the minutes of its team *)
(* time logs, and its completed flag is true iff that sum has reached its *)
(* target_time.                                                           *)
C20_TeamSumInvariant ==
    \A g \in DOMAIN team_goals :
        /\ team_goals[g].real_time = timedelta(LoggedTeamMinutes(g))
        /\ team_goals[g].completed
              <=> timedelta(LoggedTeamMinutes(g)) >= team_goals[g].target_time

(* C22: the time_log_view request whose entry takes its goal from not     *)
(* completed to completed goes on to the congratulation branch: when the  *)
(* goal it loaded was not completed and the goal it re-reads is, the      *)
(* request does the completion write and answers with congratulations.    *)
C22_CompletingRequestCongratulated ==
    [][\A p \in Requests :
          (/\ req[p].pc = "log_refresh" /\ req'[p].pc # "log_refresh"
           /\ req[p].goal \in DOMAIN goals
           /\ ~req[p].goal_obj.completed
           /\ goals[req[p].goal].completed)
              => req'[p].pc = "log_complete"]_vars

(* C26: a goal edit does not lose logged minutes: the save of an edit     *)
(* leaves the stored real_time of the goal as it finds it, whatever       *)
(* time_log_view requests committed since the edit loaded the goal.       *)
C26_EditKeepsLoggedMinutes ==
    [][\A p \in Requests :
          (/\ req[p].pc = "goal_save" /\ req'[p].pc # "goal_save"
           /\ req[p].goal \in DOMAIN goals)
              => /\ req[p].goal \in DOMAIN goals'
                 /\ goals'[req[p].goal].real_time = goals[req[p].goal].real_time]_vars

(* C27: editing a goal preserves the completion invariant: after the      *)
(* edit's save the goal is completed iff its real_time has reached its    *)
(* (possibly new) target_time, so a completed goal whose target is still  *)
(* met stays completed.                                                   *)
C27_EditKeepsCompletion ==
    [][\A p \in Requests :
          (/\ req[p].pc = "goal_save" /\ req'[p].pc # "goal_save"
           /\ req[p].goal \in DOMAIN goals')
              => (goals'[req[p].goal].completed
                    <=> goals'[req[p].goal].real_time
                            >= goals'[req[p].goal].target_time)]_vars

\* The time logs of goal g in the table ls.
EntriesOf(ls, g) == [l \in {x \in DOMAIN ls : ls[x].goal = g} |-> ls[l]]

(* C25: a request of a user who does not own a goal never changes the     *)
(* goal or its time logs: whenever a step changes or removes a goal, or   *)
(* adds, changes or removes one of its entries, the request that took the *)
(* step is one of the goal's owner.                                       *)
C25_OnlyOwnerChangesGoal ==
    [][\A g \in DOMAIN goals :
          (\/ g \notin DOMAIN goals'
           \/ goals'[g] # goals[g]
           \/ EntriesOf(logs', g) # EntriesOf(logs, g))
              => \E p \in Requests :
                    /\ req'[p] # req[p]
                    /\ req'[p].user = goals[g].user]_vars

\* A stranger asked to log time on a goal that exists and has entries of
\* its owner, and was answered 404.
C25_Witness ==
    /\ Answered("r1", "time_log", "404")
    /\ DOMAIN goals = GoalIds
    /\ logs # <<>>

(* C28: the post_save receiver changes a goal only for a newly created    *)
(* time log.  When an existing entry is saved again (created is false)    *)
(* the receiver adds nothing: the goal's real_time moves by the view's    *)
(* own difference alone, and completed changes only by the view's own     *)
(* test.                                                                  *)
C28_ResaveAddsNothing ==
    [][\A p \in Requests :
          (/\ req[p].pc = "edit_txn"
           /\ req'[p].pc = "done" /\ req'[p].resp = "updated"
           /\ req[p].log \in DOMAIN logs)
              => LET g == req[p].goal
                 IN  /\ goals'[g].real_time =
                            goals[g].real_time
                              + (req[p].form.value - timedelta(req[p].old))
                     /\ goals'[g].completed
                            <=> (goals[g].completed
                                   \/ goals'[g].real_time >= goals'[g].target_time)]_vars

\* An entry of one minute was saved again as two minutes: the goal holds
\* the minute the receiver added when the entry was created, and no more.
C28_Witness ==
    /\ Answered("r1", "time_log_edit", "updated")
    /\ req["r1"].log \in DOMAIN logs
    /\ logs[req["r1"].log].minutes = 2
    /\ req["r1"].goal \in DOMAIN goals
    /\ goals[req["r1"].goal].real_time = timedelta(1)

(* C29: with time_log_view requests running concurrently, a goal whose    *)
(* entries together reach its target_time is completed, in every          *)
(* interleaving: after every step, and so once all the requests have      *)
(* finished, the goals whose entries reach their target are completed.    *)
(* The step that writes the completion flag keeps every increment: it     *)
(* leaves real_time at the stored value plus the minutes of its own entry.*)
C29_ConcurrentLogsComplete ==
    [][/\ \A g \in DOMAIN goals' :
             (goals'[g].target_time # 0
                /\ timedelta(SumMinutes(logs', DOMAIN logs', g)) >= goals'[g].target_time)
                  => goals'[g].completed
       /\ \A p \in Requests :
             (req[p].pc = "log_txn" /\ req'[p].pc = "log_refresh")
                => LET g == req[p].goal
                   IN  goals'[g].real_time =
                          goals[g].real_time + timedelta(logs'[req'[p].log].minutes)]_vars

\* Two requests that both loaded a goal of two minutes at real_time 0 have
\* each committed one minute: neither reached the target alone, and the
\* goal is completed.
C29_Witness ==
    /\ req["r1"].pc = "log_refresh" /\ req["r2"].pc = "log_refresh"
    /\ req["r1"].goal = req["r2"].goal
    /\ req["r1"].goal_obj.real_time = 0 /\ req["r2"].goal_obj.real_time = 0
    /\ req["r1"].goal_obj.target_time = timedelta(2)
    /\ logs[req["r1"].log].minutes = 1 /\ logs[req["r2"].log].minutes = 1
    /\ goals[req["r1"].goal].real_time = timedelta(2)
    /\ goals[req["r1"].goal].completed

\* The posted goal form has no target, a target of zero, or an end date
\* before its start date.
BadGoalInput(target_in, end_before_start) ==
    \/ ~target_in.given
    \/ target_in.value = 0
    \/ end_before_start

(* C21: a goal_create_view or goal_edit_view request whose form has a     *)
(* zero or missing target, or an end date before the start date, is       *)
(* answered with the form's validation error, and the goals and the time  *)
(* logs are left as they were.                                            *)
C21_InvalidGoalFormRejected ==
    [][\A p \in Requests, u \in Users, t \in TargetInputs, e \in BOOLEAN :
          BadGoalInput(t, e) =>
            /\ \A x \in PostedExtras :
                  goal_create_view(p, u, t, e, x)
                     => /\ req'[p].pc = "done" /\ req'[p].resp = "invalid"
                        /\ UNCHANGED <<goals, logs, nextGoalId>>
            /\ \A g \in DOMAIN goals :
                  (goals[g].user = u /\ goal_edit_view(p, u, g, t, e))
                     => /\ req'[p].pc = "done" /\ req'[p].resp = "invalid"
                        /\ UNCHANGED <<goals, logs>>]_vars

\* One request has been refused the creation of a goal and the other the
\* edit of a goal that exists.
C21_Witness ==
    /\ Answered("r1", "goal_create", "invalid")
    /\ Answered("r2", "goal_edit", "invalid")
    /\ goals # <<>>

\* The distinct dates of the time logs of goal g in the table ls.
DatesOf(ls, g) == {ls[l].log_date : l \in DOMAIN EntriesOf(ls, g)}

(* C30: the streak the dashboard shows for a goal on day D is at most the *)
(* number of distinct dates the goal has entries on; it is positive iff   *)
(* the goal has an entry dated D or D - 1; it is the streak of the goal's *)
(* own dates, whatever the entries of other goals; and it is never lower  *)
(* than a streak shown for the same goal on the same day before entries   *)
(* were added.                                                            *)
C30_StreakBounds ==
    [][\A p \in Requests :
          (req[p].pc = "idle" /\ Rendered(p)')
             => \A g \in DOMAIN req'[p].context.goals_with_progress :
                   LET s == req'[p].context.goals_with_progress[g].current_streak
                       own == DatesOf(logs, g)
                   IN  /\ s <= Cardinality(own)
                       /\ s > 0 <=> (today \in own \/ today - 1 \in own)
                       /\ s = current_streak(own, today)
                       /\ \A q \in Requests :
                             (/\ Rendered(q)
                              /\ req[q].context.today = today
                              /\ g \in DOMAIN req[q].context.goals_with_progress)
                                => s >= req[q].context.goals_with_progress[g].current_streak]_vars

\* The dashboard showed a streak of one for a goal logged yesterday, an
\* entry dated today was added, and the dashboard read again on the same
\* day shows two; the other goal, without entries, shows none.
C30_Witness ==
    /\ Rendered("r1") /\ Rendered("r2")
    /\ req["r1"].context.today = req["r2"].context.today
    /\ \E g \in DOMAIN goals, h \in DOMAIN goals :
          /\ req["r2"].context.goals_with_progress[g].current_streak = 1
          /\ req["r1"].context.goals_with_progress[g].current_streak = 2
          /\ logged_dates_set(h) = {}
          /\ req["r1"].context.goals_with_progress[h].current_streak = 0

(* C23: a user is never a member of the same team twice, also when two    *)
(* team_join_view requests of that user for that team are interleaved;    *)
(* and a join request of a user who is already a member of the team       *)
(* leaves the memberships, their roles included, as they were.            *)
C23_NoDoubleMembership ==
    [][/\ \A u \in Users, t \in TeamIds :
             Cardinality(MemberRows(memberships', u, t)) <= 1
       /\ \A p \in Requests :
             (/\ req'[p] # req[p]
              /\ req'[p].view = "team_join"
              /\ MemberRows(memberships, req'[p].user, req'[p].team) # {})
                => memberships' = memberships]_vars

\* Two join requests of one user for one team both passed the membership
\* test; one joined, the other met the unique constraint, and the user is
\* on the team once.
C23_Witness ==
    /\ Answered("r1", "team_join", "joined")
    /\ Answered("r2", "team_join", "failed: unique")
    /\ req["r1"].user = req["r2"].user
    /\ req["r1"].team = req["r2"].team
    /\ Cardinality(MemberRows(memberships, req["r1"].user, req["r1"].team)) = 1

(* C24: a team and its creator's ADMIN membership are created together or *)
(* not at all: every team has an ADMIN membership, the request that       *)
(* created a team leaves an ADMIN membership of its user for that team,   *)
(* and a team_create_view request whose block fails leaves no team and no *)
(* membership behind.                                                     *)
C24_TeamWithItsAdmin ==
    [][/\ \A t \in DOMAIN teams' :
             \E i \in DOMAIN memberships' :
                memberships'[i].team = t /\ memberships'[i].role = "ADMIN"
       /\ \A p \in Requests :
             (req[p].pc = "team_txn" /\ req'[p].pc = "done")
                => IF req'[p].resp = "created"
                   THEN /\ DOMAIN teams' = DOMAIN teams \cup {req'[p].team}
                        /\ req'[p].team \notin DOMAIN teams
                        /\ \E i \in DOMAIN memberships' \ DOMAIN memberships :
                              memberships'[i] =
                                 NewMember(req[p].user, req'[p].team, "ADMIN")
                   ELSE UNCHANGED <<teams, memberships>>]_vars

\* One request created a team, whose admin its user is; the block of the
\* other failed, and there is one team.
C24_Witness ==
    /\ Answered("r1", "team_create", "created")
    /\ Answered("r2", "team_create", "failed")
    /\ DOMAIN teams = {req["r1"].team}
    /\ \E i \in DOMAIN memberships :
          memberships[i] = NewMember(req["r1"].user, req["r1"].team, "ADMIN")

=============================================================================
